---- MODULE Spec2Model ----
(***************************************************************************)
(* Model of the collaboration engine of RenPy-VisualEditor:                *)
(* backend/app/services/websocket.py, class ConnectionManager.             *)
(*                                                                         *)
(* Every coroutine of the manager is cut at its suspension points (the     *)
(* awaited send_text calls): the code between two suspension points is one *)
(* atomic step, and the steps of different connections interleave.  sent[c]*)
(* is the sequence of send_text calls made on websocket c.                 *)
(***************************************************************************)
EXTENDS Integers, Sequences, FiniteSets, TLC

\* Identifiers are interchangeable, so each kind is introduced in a fixed
\* order: the first websocket created is c1, the first user seen is u1, ...
UserOrder == <<"u1", "u2">>
ProjectOrder == <<"p1", "p2">>
ScriptOrder == <<"s1", "s2">>
ConnOrder == <<"c1", "c2", "c3">>
Range(q) == {q[i] : i \in 1..Len(q)}
Users == Range(UserOrder)
Projects == Range(ProjectOrder)
Scripts == Range(ScriptOrder)
Conns == Range(ConnOrder)
NodeOrder == <<"n1", "n2">>
Nodes == Range(NodeOrder)
None == "none"
\* the keys of the script tables: message.get("scriptId") is None when the
\* field is missing, and None is a key like any other
ScriptIds == Scripts \cup {None}

\* ConnectionManager.lock_timeout, minutes
lock_timeout == 5

\* number of manager calls explored, and the last clock value explored
MaxOps == 4
MaxClock == 6

\* number of handle_client_message calls explored
MaxMsgs == 2

\* the clock advances by one of these amounts: exactly the timeout (the lock
\* is then at its expires_at, not past it) or one minute more
TickSteps == {lock_timeout, lock_timeout + 1}

\* the username that goes with a user id (none without one)
Username(u) ==
    IF u = "u1" THEN "User One" ELSE IF u = "u2" THEN "User Two" ELSE None

VARIABLES
    project_connections,   \* project_id -> set of websockets
    script_connections,    \* script_id -> set of websockets
    user_sessions,         \* user_id -> session record (a dict: partial)
    node_locks,            \* script_id -> node_id -> lock record (partial)
    sent,                  \* websocket -> sequence of messages sent on it
    task,                  \* websocket -> the manager call running for it
    route,                 \* websocket -> endpoint it was opened on
    clock,                 \* datetime.now()
    ops,                   \* number of manager calls made so far
    nchanges,              \* number of changes made to node_locks so far
    last,                  \* the most recent manager call and its outcome
    lines,                 \* self.lines of the RenPyParser
    root_node,             \* the tree parse_async returned
    outcome,               \* "none", "returned" or "hung": how the parse ended
    calls                  \* the parse_async calls of overlapping requests

manager_vars ==
    <<project_connections, script_connections, user_sessions, node_locks,
      sent, task, route, clock, ops, nchanges, last>>

parser_vars == <<lines, root_node, outcome, calls>>

vars == <<manager_vars, parser_vars>>

----------------------------------------------------------------------------
\* Records

NoMsg == [type |-> None]

\* life: "fresh" (not created yet), "open", "closed" (disconnect was called
\* for it); "refused" and "denied" (the endpoint closed it before
\* registering it, with code 4001, or with 4003 or 4004), "aborted" (the
\* endpoint closed it with code 4001 after registering it)
NoRoute == [kind |-> None, id |-> None, user |-> None, life |-> "fresh"]

\* no call is running
NoTask ==
    [st |-> "idle", op |-> None, user |-> None, project |-> None,
     script |-> None, node |-> None, kind |-> None, id |-> None,
     size |-> 0, visited |-> {}, snap |-> {}, excl |-> {}, msg |-> NoMsg,
     cont |-> None, ret |-> None]

\* ret is what the connection's last call returned: "true", "false", "done"
\* (a call without a value) or "raised"; None while a call is running

NoCall ==
    [conn |-> None, op |-> None, user |-> None, id |-> None, node |-> None]

\* root_node while no tree has been returned
NoTree ==
    [label_name |-> "", start_line |-> 0, end_line |-> 0,
     node_type |-> None, children |-> <<>>, false_branch |-> <<>>]

\* The requests that call parse_async of the one parser of the routes,
\* and a call that has not started: script_path is the file it is given,
\* own the tree of the lines of that file (kept for comparison), result
\* what the call returned.
CallIds == {"first", "second"}

NoParse ==
    [pc |-> "idle", script_path |-> <<>>, own |-> NoTree,
     result |-> NoTree]

CallOf(c, op, u, id, n) ==
    [conn |-> c, op |-> op, user |-> u, id |-> id, node |-> n]

\* the whole state of the manager, threaded through the straight-line code
Cur ==
    [pconn |-> project_connections, sconn |-> script_connections,
     sess |-> user_sessions, locks |-> node_locks, sent |-> sent,
     task |-> task, nch |-> nchanges]

Install(G) ==
    /\ project_connections' = G.pconn
    /\ script_connections' = G.sconn
    /\ user_sessions' = G.sess
    /\ node_locks' = G.locks
    /\ sent' = G.sent
    /\ task' = G.task
    /\ nchanges' = G.nch

\* dict helpers
Drop(f, k) == [x \in DOMAIN f \ {k} |-> f[x]]
Put(f, k, v) == [x \in DOMAIN f \cup {k} |-> IF x = k THEN v ELSE f[x]]

ConnSet(G, kind, id) == IF kind = "project" THEN G.pconn[id] ELSE G.sconn[id]

\* self.send_personal_message / connection.send_text
Send(G, c, m) == [G EXCEPT !.sent[c] = Append(@, m)]

\* a call returns val (or raises) and the connection's task is idle again
Return(G, c, T, val) == [G EXCEPT !.task[c] = [NoTask EXCEPT !.ret = val]]

----------------------------------------------------------------------------
\* variant: the sessions are not filtered by project
get_all_active_users(G, p) ==
    {[id |-> u, username |-> G.sess[u].username,
      connected_at |-> G.sess[u].connected_at,
      editing_script |-> G.sess[u].script_id] : u \in DOMAIN G.sess}

\* get_project_active_users
get_project_active_users(G, p) ==
    {[id |-> u, username |-> G.sess[u].username,
      connected_at |-> G.sess[u].connected_at,
      editing_script |-> G.sess[u].script_id] :
        u \in {v \in DOMAIN G.sess : G.sess[v].project_id = p}}

\* variant: the entries that have expired are left out
get_script_locks_unexpired(G, s) ==
    {[node_id |-> n, user_id |-> G.locks[s][n].user_id,
      username |-> G.locks[s][n].username,
      locked_at |-> G.locks[s][n].locked_at] :
        n \in {m \in DOMAIN G.locks[s] : G.locks[s][m].expires_at >= clock}}

\* get_script_locks: every entry of the table, expired or not
get_script_locks(G, s) ==
    {[node_id |-> n, user_id |-> G.locks[s][n].user_id,
      username |-> G.locks[s][n].username,
      locked_at |-> G.locks[s][n].locked_at] : n \in DOMAIN G.locks[s]}

\* variant: a lock counts as expired from its expires_at on
LockDeniedAtExpiry(locks, s, n, u, now) ==
    /\ n \in DOMAIN locks[s]
    /\ ~ (locks[s][n].expires_at <= now)
    /\ locks[s][n].user_id # u

\* variant: locks never expire
LockDeniedForever(locks, s, n, u, now) ==
    /\ n \in DOMAIN locks[s]
    /\ locks[s][n].user_id # u

\* lock_node, lines 123-132: the request is denied
LockDenied(locks, s, n, u, now) ==
    /\ n \in DOMAIN locks[s]
    /\ ~ (locks[s][n].expires_at < now)
    /\ locks[s][n].user_id # u

\* lock_node, lines 135-140: the entry written
LockEntry(u, now) ==
    [user_id |-> u, username |-> Username(u), locked_at |-> now,
     expires_at |-> now + lock_timeout]

\* variant: the holder is not compared with the caller
ReleaseRefusedIfAbsent(locks, s, n, u) == n \notin DOMAIN locks[s]

\* release_node_lock, lines 158-164: the request is refused
ReleaseRefused(locks, s, n, u) ==
    \/ n \notin DOMAIN locks[s]
    \/ locks[s][n].user_id # u

\* variant: the holder of an entry is not compared with the leaving user
HeldNodesOfAnyone(locks, s, u) == DOMAIN locks[s]

\* disconnect, lines 497-500: the nodes whose lock the user holds
HeldNodes(locks, s, u) == {n \in DOMAIN locks[s] : locks[s][n].user_id = u}

----------------------------------------------------------------------------
\* Messages.  by and seq are bookkeeping: the connection whose call sent the
\* message, and the number of the lock-table change it announces (for a
\* node_editing event of notify_edit, which announces none, the number of
\* the call).

Msg(type, c, u, n, ns, body, ts, seq) ==
    [type |-> type, by |-> c, user_id |-> u, node_id |-> n, nodes |-> ns,
     body |-> body, timestamp |-> ts, seq |-> seq]

----------------------------------------------------------------------------
\* The loops "for connection in connections: await connection.send_text(..)"
\* of broadcast_to_project, broadcast_to_script and connect_project.

RECURSIVE Continue(_, _, _, _)

\* Start a loop over a connection set.  Excluded connections are skipped
\* without suspending; the first send happens in the caller's step.
StartLoop(G, c, T, kind, id, msg, excl, cont) ==
    LET S == ConnSet(G, kind, id)
        cands == S \ excl
    IN  IF cands = {}
        THEN Continue(G, c, [T EXCEPT !.msg = msg], cont)
        ELSE {[Send(G, r, msg) EXCEPT !.task[c] =
                  [T EXCEPT !.st = "suspended", !.kind = kind, !.id = id,
                            !.size = Cardinality(S), !.visited = {r},
                            !.snap = S, !.excl = excl, !.msg = msg,
                            !.cont = cont]] : r \in cands}

\* disconnect, lines 465-477
DisconnectProject(G, c, T) ==
    IF T.project # None /\ c \in G.pconn[T.project]
    THEN StartLoop([G EXCEPT !.pconn[T.project] = @ \ {c}], c, T,
                   "project", T.project,
                   Msg("user_left_project", c, T.user, None, {}, {}, clock, 0),
                   {}, "dc_script")
    ELSE Continue(G, c, T, "dc_script")

\* disconnect, lines 480-492
DisconnectScript(G, c, T) ==
    IF T.script # None /\ c \in G.sconn[T.script]
    THEN StartLoop([G EXCEPT !.sconn[T.script] = @ \ {c}], c, T,
                   "script", T.script,
                   Msg("user_left_script", c, T.user, None, {}, {}, clock, 0),
                   {}, "dc_locks")
    ELSE Continue(G, c, T, "dc_locks")

\* disconnect, lines 495-512
DisconnectLocks(G, c, T) ==
    IF T.script # None
    THEN LET released == HeldNodes(G.locks, T.script, T.user)
             G1 == [G EXCEPT !.locks[T.script] =
                        [n \in DOMAIN @ \ released |-> @[n]]]
         IN  IF released # {}
             THEN StartLoop([G1 EXCEPT !.nch = @ + 1], c, T,
                            "script", T.script,
                            Msg("locks_released", c, T.user, None, released,
                                {}, clock, G.nch + 1),
                            {}, "dc_del")
             ELSE Continue(G, c, T, "dc_del")
    ELSE Continue(G, c, T, "dc_del")

\* disconnect, line 515: del of a key that is gone raises KeyError
DisconnectDelete(G, c, T) ==
    IF T.user \in DOMAIN G.sess
    THEN {Return([G EXCEPT !.sess = Drop(@, T.user)], c, T, "done")}
    ELSE {Return(G, c, T, "raised")}

\* connect_script, lines 105-112: the list is built, and the call is
\* suspended in the send of it to the new client
SendNodeLocks(G, c, T) ==
    LET m == Msg("node_locks", c, T.user, None, {},
                 get_script_locks(G, T.script), clock, 0)
    IN  {[Send(G, c, m) EXCEPT !.task[c] =
            [T EXCEPT !.st = "suspended", !.kind = None, !.msg = m,
                      !.cont = "cs_done"]]}

\* What runs after a loop (or an awaited personal send) is over, up to the
\* next suspension point.
Continue(G, c, T, cont) ==
    CASE cont = "cp_loop" ->
            StartLoop(G, c, T, "project", T.project, T.msg, {c}, "cp_done")
      [] cont = "cp_done" -> {Return(G, c, T, "done")}
      [] cont = "cs_locks" -> SendNodeLocks(G, c, T)
      [] cont = "cs_done" -> {Return(G, c, T, "done")}
      [] cont = "lk_done" -> {Return(G, c, T, "true")}
      [] cont = "rl_done" -> {Return(G, c, T, "true")}
      [] cont = "dc_script" -> DisconnectScript(G, c, T)
      [] cont = "dc_locks" -> DisconnectLocks(G, c, T)
      [] cont = "dc_del" -> DisconnectDelete(G, c, T)
      [] cont = "hm_done" -> {Return(G, c, T, "done")}
      [] cont = "ne_done" -> {Return(G, c, T, "done")}

----------------------------------------------------------------------------
\* The calls

Call(c, op) ==
    [NoTask EXCEPT !.op = op, !.user = route[c].user]

\* x is already in use, or is the next identifier of its kind
NextOf(order, used, x) ==
    \E i \in 1..Len(order) :
        /\ order[i] = x
        /\ \A j \in 1..(i - 1) : order[j] \in used

\* the next websocket object to be created
Fresh(c) ==
    /\ route[c].life = "fresh"
    /\ NextOf(ConnOrder, {d \in Conns : route[d].life # "fresh"}, c)

KnownUsers == {route[d].user : d \in Conns} \ {None}
KnownIds(kind) == {route[d].id : d \in {e \in Conns : route[e].kind = kind}}

\* the node ids a message carries
MsgNodes(m) ==
    IF m.type = None THEN {}
    ELSE ({m.node_id} \cup m.nodes \cup
          (IF m.type = "node_locks" THEN {e.node_id : e \in m.body} ELSE {}))
         \cap Nodes

\* node id n was named by some client and the state still shows it
KnownNode(n) ==
    \/ last.node = n
    \/ \E s \in Scripts : n \in DOMAIN node_locks[s]
    \/ \E c \in Conns : task[c].node = n \/ n \in MsgNodes(task[c].msg)
    \/ \E c \in Conns : \E i \in DOMAIN sent[c] : n \in MsgNodes(sent[c][i])

\* the next node id a client names: one already named, or the first new one
NextNode(n) ==
    \E i \in 1..Len(NodeOrder) :
        /\ NodeOrder[i] = n
        /\ \A j \in 1..(i - 1) : KnownNode(NodeOrder[j])

Idle(c) == route[c].life # "fresh" /\ task[c].st = "idle"

\* connect_project, lines 23-50, up to the awaited send to the new client
connect_project(G, c, p, u) ==
    LET G1 == [G EXCEPT !.pconn[p] = @ \cup {c},
                        !.sess = Put(@, u,
                            [project_id |-> p, script_id |-> None, ws |-> c,
                             username |-> Username(u),
                             connected_at |-> clock])]
        m == Msg("active_users", c, u, None, {},
                 get_project_active_users(G1, p), clock, 0)
        T == [NoTask EXCEPT !.op = "connect_project", !.user = u,
                            !.project = p]
    IN  {[Send(G1, c, m) EXCEPT !.task[c] =
            [T EXCEPT !.st = "suspended", !.msg = m, !.cont = "cp_loop"]]}

ConnectProject(c, p, u) ==
    /\ Fresh(c)
    /\ NextOf(UserOrder, KnownUsers, u)
    /\ NextOf(ProjectOrder, KnownIds("project"), p)
    /\ ops < MaxOps
    /\ ops' = ops + 1
    /\ route' = [route EXCEPT ![c] =
                    [kind |-> "project", id |-> p, user |-> u, life |-> "open"]]
    /\ \E G \in connect_project(Cur, c, p, u) : Install(G)
    /\ last' = CallOf(c, "connect_project", u, p, None)
    /\ UNCHANGED <<clock, parser_vars>>

\* variant: the broadcast does not leave out the new websocket
connect_script_to_all(G, c, s, u) ==
    LET old == G.sess[u]
        session ==
            IF u \in DOMAIN G.sess
            THEN [old EXCEPT !.script_id = s, !.ws = c,
                             !.username = Username(u)]
            ELSE [project_id |-> None, script_id |-> s, ws |-> c,
                  username |-> Username(u), connected_at |-> clock]
        G1 == [G EXCEPT !.sconn[s] = @ \cup {c}, !.sess = Put(@, u, session)]
        T == [NoTask EXCEPT !.op = "connect_script", !.user = u,
                            !.script = s]
    IN  StartLoop(G1, c, T, "script", s,
                  Msg("user_joined_script", c, u, None, {}, {}, clock, 0),
                  {}, "cs_locks")

\* connect_script, lines 66-100
connect_script(G, c, s, u) ==
    LET old == G.sess[u]
        session ==
            IF u \in DOMAIN G.sess
            THEN [old EXCEPT !.script_id = s, !.ws = c,
                             !.username = Username(u)]
            ELSE [project_id |-> None, script_id |-> s, ws |-> c,
                  username |-> Username(u), connected_at |-> clock]
        G1 == [G EXCEPT !.sconn[s] = @ \cup {c}, !.sess = Put(@, u, session)]
        T == [NoTask EXCEPT !.op = "connect_script", !.user = u,
                            !.script = s]
    IN  StartLoop(G1, c, T, "script", s,
                  Msg("user_joined_script", c, u, None, {}, {}, clock, 0),
                  {c}, "cs_locks")

ConnectScript(c, s, u) ==
    /\ Fresh(c)
    /\ NextOf(UserOrder, KnownUsers, u)
    /\ NextOf(ScriptOrder, KnownIds("script"), s)
    /\ ops < MaxOps
    /\ ops' = ops + 1
    /\ route' = [route EXCEPT ![c] =
                    [kind |-> "script", id |-> s, user |-> u, life |-> "open"]]
    /\ \E G \in connect_script(Cur, c, s, u) : Install(G)
    /\ last' = CallOf(c, "connect_script", u, s, None)
    /\ UNCHANGED <<clock, parser_vars>>

\* variant: the grant is decided and announced but the entry is not written
\* before the coroutine suspends
lock_node_unrecorded(G, c, s, n, u) ==
    LET now == clock
        T == [NoTask EXCEPT !.op = "lock_node", !.user = u, !.script = s,
                            !.node = n]
    IN  IF LockDenied(G.locks, s, n, u, now)
        THEN {Return(G, c, T, "false")}
        ELSE StartLoop([G EXCEPT !.nch = @ + 1],
                       c, T, "script", s,
                       Msg("node_locked", c, u, n, {}, {}, now, G.nch + 1),
                       {}, "lk_done")

\* variant: a request of the holder is answered without a new entry and
\* without a broadcast
lock_node_kept(G, c, s, n, u) ==
    LET now == clock
        T == [NoTask EXCEPT !.op = "lock_node", !.user = u, !.script = s,
                            !.node = n]
    IN  IF LockDenied(G.locks, s, n, u, now)
        THEN {Return(G, c, T, "false")}
        ELSE IF n \in DOMAIN G.locks[s] /\ G.locks[s][n].user_id = u
        THEN {Return(G, c, T, "true")}
        ELSE StartLoop([G EXCEPT !.locks[s] = Put(@, n, LockEntry(u, now)),
                                 !.nch = @ + 1],
                       c, T, "script", s,
                       Msg("node_locked", c, u, n, {}, {}, now, G.nch + 1),
                       {}, "lk_done")

\* lock_node, lines 114-154
lock_node(G, c, s, n, u) ==
    LET now == clock
        T == [NoTask EXCEPT !.op = "lock_node", !.user = u, !.script = s,
                            !.node = n]
    IN  IF LockDenied(G.locks, s, n, u, now)
        THEN {Return(G, c, T, "false")}
        ELSE StartLoop([G EXCEPT !.locks[s] = Put(@, n, LockEntry(u, now)),
                                 !.nch = @ + 1],
                       c, T, "script", s,
                       Msg("node_locked", c, u, n, {}, {}, now, G.nch + 1),
                       {}, "lk_done")

\* script_websocket, lines 162-172: a lock_node message
LockNode(c, n) ==
    /\ Idle(c)
    /\ route[c].kind = "script" /\ route[c].life = "open"
    /\ NextNode(n)
    /\ ops < MaxOps
    /\ ops' = ops + 1
    /\ \E G \in lock_node(Cur, c, route[c].id, n, route[c].user) : Install(G)
    /\ last' = CallOf(c, "lock_node", route[c].user, route[c].id, n)
    /\ UNCHANGED <<route, clock, parser_vars>>

\* release_node_lock, lines 156-181
release_node_lock(G, c, s, n, u) ==
    LET T == [NoTask EXCEPT !.op = "release_node_lock", !.user = u,
                            !.script = s, !.node = n]
    IN  IF ReleaseRefused(G.locks, s, n, u)
        THEN {Return(G, c, T, "false")}
        ELSE StartLoop([G EXCEPT !.locks[s] = Drop(@, n), !.nch = @ + 1],
                       c, T, "script", s,
                       Msg("node_unlocked", c, u, n, {}, {}, clock,
                           G.nch + 1),
                       {}, "rl_done")

\* script_websocket, lines 185-195: an unlock_node message
ReleaseNodeLock(c, n) ==
    /\ Idle(c)
    /\ route[c].kind = "script" /\ route[c].life = "open"
    /\ NextNode(n)
    /\ ops < MaxOps
    /\ ops' = ops + 1
    /\ \E G \in release_node_lock(Cur, c, route[c].id, n, route[c].user) :
            Install(G)
    /\ last' = CallOf(c, "release_node_lock", route[c].user, route[c].id, n)
    /\ UNCHANGED <<route, clock, parser_vars>>

\* disconnect, lines 449-462: the user the call is about
ResolveUser(G, c, uid) ==
    IF uid # None THEN {uid}
    ELSE IF \E v \in DOMAIN G.sess : G.sess[v].ws = c
         THEN {v \in DOMAIN G.sess : G.sess[v].ws = c}
         ELSE {None}

\* disconnect, lines 449-517, for the resolved user u (None: nobody found)
disconnect(G, c, u) ==
    LET T0 == [NoTask EXCEPT !.op = "disconnect", !.user = u]
    IN  IF u # None /\ u \in DOMAIN G.sess
        THEN DisconnectProject(G, c,
                [T0 EXCEPT !.project = G.sess[u].project_id,
                           !.script = G.sess[u].script_id])
        ELSE {Return(G, c, T0, "done")}

\* the script of the user's session, if any
SessionScript(u) ==
    IF u \in DOMAIN user_sessions THEN user_sessions[u].script_id ELSE None

\* project_websocket line 105, script_websocket line 234, and the "leave"
\* message (line 273); the user_id argument is optional
Disconnect(c, given) ==
    /\ Idle(c)
    /\ ops < MaxOps
    /\ ops' = ops + 1
    /\ route' = [route EXCEPT ![c].life = "closed"]
    /\ \E u \in ResolveUser(Cur, c, IF given THEN route[c].user ELSE None) :
          /\ \E G \in disconnect(Cur, c, u) : Install(G)
          /\ last' = CallOf(c, "disconnect", u, SessionScript(u), None)
    /\ UNCHANGED <<clock, parser_vars>>

----------------------------------------------------------------------------
\* Resuming a suspended call

Suspended(c) == task[c].st = "suspended"
InLoop(c) == Suspended(c) /\ task[c].kind # None

LiveSet(c) == ConnSet(Cur, task[c].kind, task[c].id)
Remaining(c) == (LiveSet(c) \ task[c].excl) \ task[c].visited

\* connect_project resumes after the send to the new client and starts its
\* loop over the project's connections (lines 54-62)
ResumeAfterSend(c) ==
    /\ Suspended(c) /\ task[c].kind = None
    /\ \E G \in Continue(Cur, c, task[c], task[c].cont) : Install(G)
    /\ UNCHANGED <<route, clock, ops, last, parser_vars>>

\* the set iterator refuses to go on when the set changed size
SetChanged(c) == Cardinality(LiveSet(c)) # task[c].size

\* RuntimeError: Set changed size during iteration; it is raised by the for
\* statement, outside the try of the send, and ends the manager call
IterRaise(c) ==
    /\ InLoop(c)
    /\ SetChanged(c)
    /\ Install(Return(Cur, c, task[c], "raised"))
    /\ UNCHANGED <<route, clock, ops, last, parser_vars>>

\* the loop goes on to another connection
SendNext(c) ==
    /\ InLoop(c)
    /\ ~ SetChanged(c)
    /\ \E r \in Remaining(c) :
          Install([Send(Cur, r, task[c].msg) EXCEPT
                      !.task[c].visited = @ \cup {r}])
    /\ UNCHANGED <<route, clock, ops, last, parser_vars>>

\* the loop is over: every connection that was in the set when the loop
\* started and still is has been visited (one added meanwhile may be missed)
LoopEnd(c) ==
    /\ InLoop(c)
    /\ ~ SetChanged(c)
    /\ Remaining(c) \cap task[c].snap = {}
    /\ \E G \in Continue(Cur, c, task[c], task[c].cont) : Install(G)
    /\ UNCHANGED <<route, clock, ops, last, parser_vars>>

\* some lock has not expired yet
LiveLock ==
    \E s \in Scripts : \E n \in DOMAIN node_locks[s] :
        ~ (node_locks[s][n].expires_at < clock)

\* Time passes.  The clock is only advanced while a lock can still expire
\* (no decision of the manager depends on it otherwise) and between calls:
\* a step of the clock is of the order of lock_timeout (minutes), the awaits
\* of a broadcast are not.
Tick ==
    /\ LiveLock
    /\ \A c \in Conns : task[c].st = "idle"
    /\ \E d \in TickSteps :
          /\ clock + d <= MaxClock
          /\ clock' = clock + d
    /\ UNCHANGED <<project_connections, script_connections, user_sessions,
                   node_locks, sent, task, route, ops, nchanges, last,
                   parser_vars>>

----------------------------------------------------------------------------
Init ==
    /\ project_connections = [p \in Projects |-> {}]
    /\ script_connections = [s \in ScriptIds |-> {}]
    /\ user_sessions = [u \in {} |-> NoTask]
    /\ node_locks = [s \in ScriptIds |-> [n \in {} |-> NoTask]]
    /\ sent = [c \in Conns |-> <<>>]
    /\ task = [c \in Conns |-> NoTask]
    /\ route = [c \in Conns |-> NoRoute]
    /\ clock = 0
    /\ ops = 0
    /\ nchanges = 0
    /\ last = NoCall
    /\ lines = <<>>
    /\ root_node = NoTree
    /\ outcome = "none"
    /\ calls = [k \in CallIds |-> NoParse]

Next ==
    \/ \E c \in Conns, p \in Projects, u \in Users : ConnectProject(c, p, u)
    \/ \E c \in Conns, s \in Scripts, u \in Users : ConnectScript(c, s, u)
    \/ \E c \in Conns, n \in Nodes : LockNode(c, n)
    \/ \E c \in Conns, n \in Nodes : ReleaseNodeLock(c, n)
    \/ \E c \in Conns, given \in BOOLEAN : Disconnect(c, given)
    \/ \E c \in Conns : ResumeAfterSend(c)
    \/ \E c \in Conns : IterRaise(c)
    \/ \E c \in Conns : SendNext(c)
    \/ \E c \in Conns : LoopEnd(c)
    \/ Tick

Spec == Init /\ [][Next]_vars

----------------------------------------------------------------------------
\* The endpoints project_websocket and script_websocket around the manager.

\* lines 31-41 and 120-136: get_current_user raises and the outer except
\* closes the socket with 4001, or access is denied and it is closed with
\* 4003 or 4004; the manager has not been called
Refuse(c, why) ==
    /\ Fresh(c)
    /\ ops < MaxOps
    /\ ops' = ops + 1
    /\ route' = [route EXCEPT ![c].life = why]
    /\ last' = CallOf(c, why, None, None, None)
    /\ UNCHANGED <<project_connections, script_connections, user_sessions,
                   node_locks, sent, task, clock, nchanges, parser_vars>>

\* what a client may send besides the messages the manager handles
Payloads == {"ping", "notjson", "notobject", "unknown"}

\* lines 52-60, 102-104 and 152-157, 228-230: one text received in the
\* message loop.  ping is answered with pong; json.loads raises
\* JSONDecodeError on a text that is not JSON, which the loop catches; on a
\* JSON value that is not an object message.get raises AttributeError,
\* which only the outer except catches: it closes the socket with 4001 and
\* the endpoint returns without calling disconnect
ReceiveText(c, payload) ==
    /\ Idle(c)
    /\ route[c].life = "open"
    /\ ops < MaxOps
    /\ ops' = ops + 1
    /\ sent' = IF payload = "ping"
               THEN [sent EXCEPT ![c] =
                       Append(@, Msg("pong", c, None, None, {}, {}, clock, 0))]
               ELSE sent
    /\ route' = IF payload = "notobject"
                THEN [route EXCEPT ![c].life = "aborted"]
                ELSE route
    /\ last' = CallOf(c, payload, route[c].user, route[c].id, None)
    /\ UNCHANGED <<project_connections, script_connections, user_sessions,
                   node_locks, task, clock, nchanges, parser_vars>>

\* lines 107-109 and 236-238: a manager call made from the message loop
\* raised (RuntimeError of a set that changed size); the outer except
\* closes the socket with 4001
CloseOnError(c) ==
    /\ route[c].life = "open"
    /\ task[c].st = "idle" /\ task[c].ret = "raised"
    /\ route' = [route EXCEPT ![c].life = "aborted"]
    /\ UNCHANGED <<project_connections, script_connections, user_sessions,
                   node_locks, sent, task, clock, ops, nchanges, last,
                   parser_vars>>

NextRoute ==
    \/ Next
    \/ \E c \in Conns, why \in {"refused", "denied"} : Refuse(c, why)
    \/ \E c \in Conns, payload \in Payloads : ReceiveText(c, payload)
    \/ \E c \in Conns : CloseOnError(c)

SpecRoute == Init /\ [][NextRoute]_vars

----------------------------------------------------------------------------
\* handle_client_message (lines 259-351).  No route calls it: its callers
\* await one call at a time, so a call runs to its end before the next one
\* starts, and the order in which a loop visits a set does not show.

\* the rest of a suspended call, run to its end
RECURSIVE Finish(_, _)
Finish(G, c) ==
    LET T == G.task[c]
        rem == IF T.kind = None THEN {}
               ELSE (ConnSet(G, T.kind, T.id) \ T.excl) \ T.visited
    IN  IF T.st = "idle" THEN G
        ELSE IF rem = {}
             THEN Finish(CHOOSE H \in Continue(G, c, T, T.cont) : TRUE, c)
             ELSE LET r == CHOOSE x \in rem : TRUE
                  IN  Finish([Send(G, r, T.msg) EXCEPT
                                 !.task[c].visited = @ \cup {r}], c)

\* self.user_sessions.get(user_id, {}).get("username", "Unknown")
SessionName(G, u) ==
    IF u \in DOMAIN G.sess THEN G.sess[u].username ELSE "Unknown"

\* broadcast_to_*, lines 411-413: the websocket of the excluded user
ExcludedWs(G, u) ==
    IF u # None /\ u \in DOMAIN G.sess THEN {G.sess[u].ws} ELSE {}

\* a broadcast to a script made from the handler, run to its end
BroadcastToScript(G, c, s, m, excl) ==
    Finish(CHOOSE H \in StartLoop(G, c, NoTask, "script", s, m, excl,
                                  "hm_done") : TRUE, c)

\* variant: the requester of a locked node is told nothing
edit_conflict_silent(G, c, s, n) == G

\* lines 286-299: editConflict, to the requester only
edit_conflict(G, c, s, n) ==
    LET locked_by == IF n \in DOMAIN G.locks[s]
                     THEN G.locks[s][n].username ELSE "Unknown"
    IN  Send(G, c, Msg("editConflict", c, None, n, {},
                       {[locked_by |-> locked_by]}, clock, 0))

\* lines 275-299: startEditing
start_editing(G, c, s, n, u) ==
    LET uname == SessionName(G, u)
    IN  {LET H == Finish(L, c)
         IN  IF H.task[c].ret = "true"
             THEN BroadcastToScript(
                      [H EXCEPT !.locks[s][n].username = uname], c, s,
                      Msg("node_editing", c, u, n, {}, {}, clock, 0),
                      ExcludedWs(H, u))
             ELSE edit_conflict(H, c, s, n) : L \in lock_node(G, c, s, n, u)}

\* lines 301-312: endEditing
end_editing(G, c, s, n, u) ==
    {LET H == Finish(L, c)
     IN  IF H.task[c].ret = "true"
         THEN BroadcastToScript(H, c, s,
                  Msg("node_editing_ended", c, u, n, {}, {}, clock, 0),
                  ExcludedWs(H, u))
         ELSE H : L \in release_node_lock(G, c, s, n, u)}

\* payloads: a text that is not JSON, a JSON value that is not an object,
\* and objects by their "type"; a missing field is None
BroadcastTypes == {"updateNode", "insertNode", "updateStructure"}
Messages ==
    {[type |-> t, scriptId |-> None, userId |-> None, nodeId |-> None] :
        t \in {"notjson", "notobject", "unknown"}}
    \cup {[type |-> "join", scriptId |-> s, userId |-> u, nodeId |-> None] :
            s \in ScriptIds, u \in Users \cup {None}}
    \cup {[type |-> "leave", scriptId |-> None, userId |-> u,
           nodeId |-> None] : u \in Users \cup {None}}
    \cup {[type |-> t, scriptId |-> s, userId |-> u, nodeId |-> n] :
            t \in {"startEditing", "endEditing"}, s \in ScriptIds,
            u \in Users \cup {None}, n \in Nodes \cup {None}}
    \cup {[type |-> t, scriptId |-> s, userId |-> None, nodeId |-> None] :
            t \in BroadcastTypes, s \in ScriptIds}

\* variant: a payload that is not understood ends the sender's registration
drop_message_and_session(G, c, m) ==
    {[G EXCEPT !.sconn = [s \in DOMAIN G.sconn |-> G.sconn[s] \ {c}],
               !.sess = [u \in {v \in DOMAIN G.sess : G.sess[v].ws # c} |->
                            G.sess[u]]]}

\* lines 261-262 and 348-351: json.loads raises, or .get does on a value
\* that is not an object, or no branch matches the type: nothing is done
drop_message(G, c, m) == {G}

\* the outcomes of one call of handle_client_message; every exception is
\* caught at lines 348-351, and the call returns None
handle_client_message(G, c, m) ==
    LET done(H) == [H EXCEPT !.task[c] = [NoTask EXCEPT !.ret = "done"]]
    IN  CASE m.type = "join" ->
               {done(Finish(H, c)) :
                    H \in connect_script(G, c, m.scriptId, m.userId)}
          [] m.type = "leave" ->
               UNION {{done(Finish(H, c)) : H \in disconnect(G, c, u)} :
                         u \in ResolveUser(G, c, m.userId)}
          [] m.type = "startEditing" ->
               {done(H) : H \in start_editing(G, c, m.scriptId, m.nodeId,
                                              m.userId)}
          [] m.type = "endEditing" ->
               {done(H) : H \in end_editing(G, c, m.scriptId, m.nodeId,
                                            m.userId)}
          [] m.type \in BroadcastTypes ->
               {done(BroadcastToScript(G, c, m.scriptId,
                        Msg(m.type, c, m.userId, m.nodeId, {}, {}, clock, 0),
                        {}))}
          [] OTHER -> {done(H) : H \in drop_message(G, c, m)}

\* identifiers a client may put in a message: one the state already shows,
\* or the next new one of its kind
KnownUser(u) ==
    \/ u \in DOMAIN user_sessions \/ last.user = u
    \/ \E s \in ScriptIds : \E n \in DOMAIN node_locks[s] :
          node_locks[s][n].user_id = u
    \/ \E c \in Conns : \E i \in DOMAIN sent[c] : sent[c][i].user_id = u

KnownScript(s) ==
    \/ last.id = s \/ script_connections[s] # {} \/ node_locks[s] # << >>
    \/ \E u \in DOMAIN user_sessions : user_sessions[u].script_id = s

NextMessage(m) ==
    /\ m.userId = None
       \/ NextOf(UserOrder, {u \in Users : KnownUser(u)}, m.userId)
    /\ m.scriptId = None
       \/ NextOf(ScriptOrder, {s \in Scripts : KnownScript(s)}, m.scriptId)
    /\ m.nodeId = None \/ NextNode(m.nodeId)

\* a test hands the text m, received on websocket c, to the handler
HandleClientMessage(c, m) ==
    /\ ops < MaxMsgs
    /\ \A d \in Conns : task[d].st = "idle"
    /\ NextOf(ConnOrder, {d \in Conns : route[d].life # "fresh"}, c)
    /\ NextMessage(m)
    /\ ops' = ops + 1
    /\ \E G \in handle_client_message(Cur, c, m) : Install(G)
    /\ last' = CallOf(c, m.type, m.userId, m.scriptId, m.nodeId)
    /\ route' = [route EXCEPT ![c].life = "open"]
    /\ UNCHANGED <<clock, parser_vars>>

NextMsg ==
    \/ \E c \in Conns, m \in Messages : HandleClientMessage(c, m)
    \/ Tick

SpecMsg == Init /\ [][NextMsg]_vars

----------------------------------------------------------------------------
\* notify_edit (lines 183-195), called by script_websocket for a
\* start_editing message (routes/websocket.py, lines 196-207), among joins
\* and disconnects of the script.

\* variant: the broadcast leaves out the websocket the message came from
notify_edit_but_caller(G, c, s, n, u) ==
    StartLoop(G, c,
              [NoTask EXCEPT !.op = "notify_edit", !.user = u, !.script = s,
                             !.node = n],
              "script", s,
              Msg("node_editing", c, u, n, {}, {}, clock, ops + 1),
              {c}, "ne_done")

\* notify_edit, lines 183-195
notify_edit(G, c, s, n, u) ==
    StartLoop(G, c,
              [NoTask EXCEPT !.op = "notify_edit", !.user = u, !.script = s,
                             !.node = n],
              "script", s,
              Msg("node_editing", c, u, n, {}, {}, clock, ops + 1),
              ExcludedWs(G, u), "ne_done")

\* script_websocket, lines 196-207: a start_editing message
NotifyEdit(c, n) ==
    /\ Idle(c)
    /\ route[c].kind = "script" /\ route[c].life = "open"
    /\ NextNode(n)
    /\ ops < MaxOps
    /\ ops' = ops + 1
    /\ \E G \in notify_edit(Cur, c, route[c].id, n, route[c].user) :
          Install(G)
    /\ last' = CallOf(c, "notify_edit", route[c].user, route[c].id, n)
    /\ UNCHANGED <<route, clock, parser_vars>>

NextEdit ==
    \/ \E c \in Conns, s \in Scripts, u \in Users : ConnectScript(c, s, u)
    \/ \E c \in Conns, n \in Nodes : NotifyEdit(c, n)
    \/ \E c \in Conns, given \in BOOLEAN : Disconnect(c, given)
    \/ \E c \in Conns : IterRaise(c)
    \/ \E c \in Conns : SendNext(c)
    \/ \E c \in Conns : LoopEnd(c)

SpecEdit == Init /\ [][NextEdit]_vars

----------------------------------------------------------------------------
\* RenPyParser (services/parser/renpy_parser.py)
\*
\* A line of the script is [lead, word, arg, colon]: its leading white
\* space (a sequence of " " and "\t"), the first word of its text, the rest
\* of the text and whether the text ends with a colon.  word = "" is a line
\* of white space only; word = "\"" is a text that starts with a double
\* quote, arg being what the quotes hold.  Line numbers count from 0 as
\* in the code: Line(i) is self.lines[i].

Line(i) == lines[i + 1]

\* line.strip() is empty
Blank(line) == line.word = ""

\* line.startswith(w + " ")
StartsWithWord(line, w) == line.word = w /\ line.arg # ""

_is_label(line) == StartsWithWord(line, "label") /\ line.colon
_is_if_statement(line) == StartsWithWord(line, "if") /\ line.colon
_is_else_statement(line) == line.word = "else" /\ line.colon
_is_elif_statement(line) == StartsWithWord(line, "elif") /\ line.colon
_is_a_statement(line) ==
    \/ StartsWithWord(line, "if")
    \/ StartsWithWord(line, "elif")
    \/ line.word = "menu"
_is_menu_statement(line) == line.word = "menu" /\ line.colon

\* line.startswith('"') and line.endswith(':') in _parse_menu_block
IsMenuOption(line) == line.word = "\"" /\ line.colon

\* the for loop of _get_indent_level over the characters of the line: st
\* is <<indent, tab_score>>
RECURSIVE IndentScan(_, _, _)
IndentScan(lead, k, st) ==
    IF k > Len(lead) THEN st[1]
    ELSE IF lead[k] = "\t" THEN IndentScan(lead, k + 1, <<st[1] + 1, 0>>)
    ELSE IF st[2] + 1 = 4 THEN IndentScan(lead, k + 1, <<st[1] + 1, 0>>)
    ELSE IndentScan(lead, k + 1, <<st[1], st[2] + 1>>)

_get_indent_level(line) == IndentScan(line.lead, 1, <<0, 0>>)

\* the name _get_label_name gives a node: a summary of the text of its
\* lines, which no decision of the parser reads
Synthesized == "<synthesized>"

ChoiceNode(label_name, start_line, node_type) ==
    [label_name |-> label_name, start_line |-> start_line, end_line |-> 0,
     node_type |-> node_type, children |-> <<>>, false_branch |-> <<>>]

ActionNode(start_line) == ChoiceNode("", start_line, "Action")

\* node.label_name = self._get_label_name(node)
Named(node) == [node EXCEPT !.label_name = Synthesized]

RECURSIVE _parse_block(_, _, _)
RECURSIVE _parse_statement(_, _, _, _)
RECURSIVE _parse_menu_block(_, _, _)
RECURSIVE TrueBranch(_, _, _)
RECURSIVE ElseBranch(_, _, _)
RECURSIVE ElifElse(_, _, _)
RECURSIVE MenuLoop(_, _, _)

\* A loop of the parser that comes back to the line it started from goes
\* round for ever, appending a node each time: the line it reads decides
\* all it does.  Such a call has hang = TRUE in its result and returns
\* nothing in the code.

\* the one element of a set {e : r \in {call}}: e with the result of
\* the call bound to the name r
The(S) == CHOOSE x \in S : TRUE

\* lines 128-166; the result is [result, index, node, hang], node being
\* current_node as the call leaves it
_parse_block(index, indent_level, current_node) ==
    LET Ends(result) ==
            [result |-> result, index |-> index - 1, hang |-> FALSE,
             node |-> [current_node EXCEPT !.end_line = index - 1]]
        Returns(r) ==
            [result |-> TRUE, index |-> r.index, node |-> r.node,
             hang |-> r.hang]
    IN
    IF index >= Len(lines) THEN Ends(FALSE)
    ELSE
    LET current_line == Line(index)
        current_indent == _get_indent_level(current_line)
    IN
    IF Blank(current_line) \/
       (current_indent >= indent_level /\ ~ _is_a_statement(current_line))
    THEN _parse_block(index + 1, indent_level, current_node)
    ELSE IF current_indent < indent_level THEN Ends(FALSE)
    ELSE IF current_node.start_line # index THEN Ends(TRUE)
    ELSE IF _is_if_statement(current_line)
    THEN The({ Returns(r) :
               r \in {_parse_statement(index, current_node, current_indent,
                               "IfBlock")} })
    ELSE IF _is_menu_statement(current_line)
    THEN The({ Returns(r) :
               r \in {_parse_menu_block(index, current_node, current_indent)} })
    ELSE _parse_block(index + 1, indent_level, current_node)

\* the loop, were it to append every node, with lines or without
TrueBranchUnchecked(index, current_node, current_indent) ==
    The({ LET node == [current_node EXCEPT
                            !.children = Append(@, Named(b.node))]
            IN IF b.hang \/ ~ b.result
               THEN [index |-> b.index, node |-> node, hang |-> b.hang]
               ELSE TrueBranch(b.index + 1, node, current_indent) :
          b \in {_parse_block(index, current_indent + 1, ActionNode(index))} })

\* lines 187-200: the loop over the nodes of the true branch
TrueBranch(index, current_node, current_indent) ==
    The({ LET statement_node == Named(b.node)
                node == IF statement_node.start_line <=
                              statement_node.end_line
                        THEN [current_node EXCEPT
                                 !.children = Append(@, statement_node)]
                        ELSE current_node
            IN IF b.hang \/ ~ b.result
               THEN [index |-> b.index, node |-> node, hang |-> b.hang]
               ELSE TrueBranch(b.index + 1, node, current_indent) :
          b \in {_parse_block(index, current_indent + 1, ActionNode(index))} })

\* lines 225-239: the loop over the nodes of the else branch
ElseBranch(index, current_node, current_indent) ==
    The({ LET false_branch_node == Named(b.node)
                node == IF false_branch_node.end_line >=
                              false_branch_node.start_line
                        THEN [current_node EXCEPT
                                 !.false_branch =
                                     Append(@, false_branch_node)]
                        ELSE current_node
            IN IF b.hang \/ ~ b.result
               THEN [index |-> b.index, node |-> node, hang |-> b.hang]
               ELSE ElseBranch(b.index + 1, node, current_indent) :
          b \in {_parse_block(index, current_indent + 1, ActionNode(index))} })

\* the loop, were it to take an elif for the end of the statement
ElifElseWithoutElif(index, current_node, current_indent) ==
    IF ~ (index + 1 < Len(lines))
    THEN [index |-> index, node |-> current_node, hang |-> FALSE]
    ELSE
    LET next_line == Line(index + 1)
        next_indent == _get_indent_level(next_line)
        Stop == [index |-> index, node |-> current_node, hang |-> FALSE]
    IN
    IF Blank(next_line)
    THEN ElifElse(index + 1, current_node, current_indent)
    ELSE IF next_indent # current_indent THEN Stop
    ELSE IF _is_else_statement(next_line)
    THEN ElseBranch(index + 2, current_node, current_indent)
    ELSE Stop

\* lines 203-245: the loop that looks for elif or else at the indentation
\* of the statement; index is the line the loop has come to
ElifElse(index, current_node, current_indent) ==
    IF ~ (index + 1 < Len(lines))
    THEN [index |-> index, node |-> current_node, hang |-> FALSE]
    ELSE
    LET next_line == Line(index + 1)
        next_indent == _get_indent_level(next_line)
        Stop == [index |-> index, node |-> current_node, hang |-> FALSE]
    IN
    IF Blank(next_line)
    THEN ElifElse(index + 1, current_node, current_indent)
    ELSE IF next_indent # current_indent THEN Stop
    ELSE IF _is_elif_statement(next_line)
    THEN The({ [index |-> r.index, hang |-> r.hang,
                  node |-> [current_node EXCEPT
                               !.false_branch = Append(@, Named(r.node))]] :
               r \in {_parse_statement(index + 1, ActionNode(index + 1),
                               current_indent, "IfBlock")} })
    ELSE IF _is_else_statement(next_line)
    THEN ElseBranch(index + 2, current_node, current_indent)
    ELSE Stop

\* lines 167-245; the result is [index, node, hang]
_parse_statement(index, current_node, current_indent, node_type) ==
    The({ IF t.hang THEN t ELSE ElifElse(t.index, t.node, current_indent) :
          t \in {TrueBranch(index + 1,
                    [current_node EXCEPT !.node_type = node_type,
                                         !.end_line = index],
                    current_indent)} })

\* the loop, were it to read on past the lines that are not deeper than
\* the menu
MenuLoopPastDedent(index, menu_node, indent_level) ==
    IF index >= Len(lines)
    THEN [index |-> index, node |-> menu_node, hang |-> FALSE]
    ELSE
    LET line == Line(index)
        current_indent == _get_indent_level(line)
    IN
    The({ LET node == IF ~ Blank(line) /\ IsMenuOption(line)
                        THEN [menu_node EXCEPT
                                 !.children = Append(@, r.node)]
                        ELSE menu_node
            IN IF r.hang \/ r.index <= index
               THEN [index |-> r.index, node |-> node, hang |-> TRUE]
               ELSE MenuLoop(r.index, node, indent_level) :
          r \in {IF ~ Blank(line) /\ IsMenuOption(line)
         THEN _parse_statement(
                  index, ChoiceNode(line.arg, index, "MenuOption"),
                  current_indent, "MenuOption")
         ELSE [index |-> index + 1, hang |-> FALSE]} })

\* lines 257-279: the loop over the lines of the menu
MenuLoop(index, menu_node, indent_level) ==
    IF index >= Len(lines)
    THEN [index |-> index, node |-> menu_node, hang |-> FALSE]
    ELSE
    LET line == Line(index)
        current_indent == _get_indent_level(line)
    IN
    IF ~ Blank(line) /\ current_indent <= indent_level
    THEN [index |-> index - 1, node |-> menu_node, hang |-> FALSE]
    ELSE
    The({ LET node == IF ~ Blank(line) /\ IsMenuOption(line)
                        THEN [menu_node EXCEPT
                                 !.children = Append(@, r.node)]
                        ELSE menu_node
            IN IF r.hang \/ r.index <= index
               THEN [index |-> r.index, node |-> node, hang |-> TRUE]
               ELSE MenuLoop(r.index, node, indent_level) :
          r \in {IF ~ Blank(line) /\ IsMenuOption(line)
         THEN _parse_statement(
                  index, ChoiceNode(line.arg, index, "MenuOption"),
                  current_indent, "MenuOption")
         ELSE [index |-> index + 1, hang |-> FALSE]} })

\* lines 247-281; the result is [index, node, hang]
_parse_menu_block(index, menu_node, indent_level) ==
    MenuLoop(index + 1,
             [menu_node EXCEPT !.start_line = index, !.end_line = index,
                               !.node_type = "MenuBlock"],
             indent_level)

\* lines 91-106: the nodes of the body of a label.  The last node is
\* appended when it has lines, and line 106 then assigns its start_line
\* in the list as well, the list holding the same object
RECURSIVE LabelChildren(_, _)
LabelChildren(index, label_node) ==
    The({ LET label_child_node == Named(b.node)
                Appended(child) ==
                    [label_node EXCEPT !.children = Append(@, child)]
            IN
            IF b.hang
            THEN [index |-> b.index, node |-> label_node, hang |-> TRUE]
            ELSE IF b.result
            THEN LabelChildren(b.index + 1, Appended(label_child_node))
            ELSE [index |-> b.index, hang |-> FALSE,
                  node |-> IF label_child_node.end_line >=
                                 label_child_node.start_line
                           THEN Appended([label_child_node EXCEPT
                                             !.start_line = b.index])
                           ELSE label_node] :
          b \in {_parse_block(index, 1, ActionNode(index))} })

\* lines 78-112: the loop over the lines of the script
RECURSIVE LabelsLoop(_, _)

\* the loop, were it to put each label in front of the ones before it
LabelsLoopPrepending(index, root) ==
    IF index >= Len(lines) THEN [node |-> root, hang |-> FALSE]
    ELSE IF ~ _is_label(Line(index)) THEN LabelsLoop(index + 1, root)
    ELSE
    The({ LET label_node == [r.node EXCEPT !.end_line = r.index - 1]
                node == [root EXCEPT !.children = <<label_node>> \o @]
            IN IF r.hang \/ r.index <= index
               THEN [node |-> node, hang |-> TRUE]
               ELSE LabelsLoop(r.index, node) :
          r \in {LabelChildren(index + 1,
                       ChoiceNode(Line(index).arg, index, "LabelBlock"))} })

LabelsLoop(index, root) ==
    IF index >= Len(lines) THEN [node |-> root, hang |-> FALSE]
    ELSE IF ~ _is_label(Line(index)) THEN LabelsLoop(index + 1, root)
    ELSE
    The({ LET label_node == [r.node EXCEPT !.end_line = r.index - 1]
                node == [root EXCEPT !.children = Append(@, label_node)]
            IN IF r.hang \/ r.index <= index
               THEN [node |-> node, hang |-> TRUE]
               ELSE LabelsLoop(r.index, node) :
          r \in {LabelChildren(index + 1,
                       ChoiceNode(Line(index).arg, index, "LabelBlock"))} })

\* lines 68-114; the result is [node, hang]
_parse_labels == LabelsLoop(0, ChoiceNode("root", 0, "Action"))

\* The lines a script file is written with: a blank line, two labels, a
\* statement at the top level, and under a label a statement, if, elif,
\* else and menu one level in (by a tab or by four spaces), a statement
\* and a menu option two levels in, and a statement three levels in.
Tab == <<"\t">>
Indent(n) == [k \in 1..(4 * n) |-> " "]
TextLine(lead, word, arg, colon) ==
    [lead |-> lead, word |-> word, arg |-> arg, colon |-> colon]

LabelNames == <<"a", "b">>

LineOrder == <<
    TextLine(<<>>, "", "", FALSE),
    TextLine(<<>>, "label", "a", TRUE),
    TextLine(<<>>, "label", "b", TRUE),
    TextLine(<<>>, "define", "e", FALSE),
    TextLine(Tab, "jump", "x", FALSE),
    TextLine(Indent(1), "if", "c", TRUE),
    TextLine(Indent(1), "elif", "d", TRUE),
    TextLine(Indent(1), "else", "", TRUE),
    TextLine(Indent(1), "menu", "", TRUE),
    TextLine(Indent(2), "\"", "A", TRUE),
    TextLine(Indent(2), "jump", "y", FALSE),
    TextLine(Indent(3), "jump", "z", FALSE) >>

ScriptLines == Range(LineOrder)

MaxLines == 4

\* the names of the label lines of a sequence of lines
LabelsOf(ls) == {ls[k].arg : k \in {j \in DOMAIN ls : ls[j].word = "label"}}

\* lines 59-62: parse_async reads the file at script_path and keeps its
\* lines in self.lines; the file is read here line by line, so that it is
\* any file of at most MaxLines lines.  Label names are taken in the order
\* of LabelNames: a file that uses them the other way round is parsed
\* alike.
ReadLine(line) ==
    /\ outcome = "none"
    /\ Len(lines) < MaxLines
    /\ line.word = "label" => NextOf(LabelNames, LabelsOf(lines), line.arg)
    /\ lines' = Append(lines, line)
    /\ UNCHANGED <<manager_vars, root_node, outcome, calls>>

\* line 66: parse_async returns what _parse_labels returns; a parse that
\* cannot return is recorded as "hung"
ParseLabels ==
    /\ outcome = "none"
    /\ \E r \in {_parse_labels} :
          /\ outcome' = IF r.hang THEN "hung" ELSE "returned"
          /\ root_node' = IF r.hang THEN NoTree ELSE r.node
    /\ UNCHANGED <<manager_vars, lines, calls>>

NextParse ==
    \/ \E line \in ScriptLines : ReadLine(line)
    \/ ParseLabels

SpecParse == Init /\ [][NextParse]_vars

\* Files of one label, long enough for whole statements: the label line,
\* then lines of the body of the label.  The lines of a body with an if:
\* if, elif and else one level in, a statement two levels in, a statement
\* one level in, and a blank line.
FirstLine == TextLine(<<>>, "label", "a", TRUE)

IfLines == {
    TextLine(<<>>, "", "", FALSE),
    TextLine(Tab, "jump", "x", FALSE),
    TextLine(Indent(1), "if", "c", TRUE),
    TextLine(Indent(1), "elif", "d", TRUE),
    TextLine(Indent(1), "else", "", TRUE),
    TextLine(Indent(2), "jump", "y", FALSE) }

\* The lines of a body with a menu: menu one level in, two options two
\* levels in, a statement three levels in, a statement one level in, and
\* a blank line.
MenuLines == {
    TextLine(<<>>, "", "", FALSE),
    TextLine(Tab, "jump", "x", FALSE),
    TextLine(Indent(1), "menu", "", TRUE),
    TextLine(Indent(2), "\"", "A", TRUE),
    TextLine(Indent(2), "\"", "B", TRUE),
    TextLine(Indent(3), "jump", "z", FALSE) }

MaxIfLines == 7
MaxMenuLines == 7

\* lines 59-62, for a file of at most max lines that starts with the
\* label line
ReadBodyLine(max, line) ==
    /\ outcome = "none"
    /\ Len(lines) < max
    /\ (lines = <<>>) <=> (line = FirstLine)
    /\ lines' = Append(lines, line)
    /\ UNCHANGED <<manager_vars, root_node, outcome, calls>>

ReadIfLine(line) == ReadBodyLine(MaxIfLines, line)

ReadMenuLine(line) == ReadBodyLine(MaxMenuLines, line)

NextIf ==
    \/ \E line \in IfLines \cup {FirstLine} : ReadIfLine(line)
    \/ ParseLabels

SpecIf == Init /\ [][NextIf]_vars

NextMenu ==
    \/ \E line \in MenuLines \cup {FirstLine} : ReadMenuLine(line)
    \/ ParseLabels

SpecMenu == Init /\ [][NextMenu]_vars

\* Overlapping calls of parse_async on one parser.  The files are those
\* of at most MaxFileLines lines out of two labels and a statement.
FileLines == {
    TextLine(<<>>, "label", "a", TRUE),
    TextLine(<<>>, "label", "b", TRUE),
    TextLine(Tab, "jump", "x", FALSE) }

MaxFileLines == 2

Files == UNION {[1..n -> FileLines] : n \in 1..MaxFileLines}

\* _parse_labels runs without a suspension point: once it goes round for
\* ever, no other coroutine of the event loop runs again
Stuck == \E k \in CallIds : calls[k].pc = "hung"

\* lines 59-62: the call opens the file at script_path, reads it and
\* assigns self.lines; it is then suspended in leaving the async with
\* block, which closes the file
LoadLines(k, file) ==
    /\ ~ Stuck
    /\ calls[k].pc = "idle"
    /\ lines' = file
    /\ \E r \in {_parse_labels'} :
          calls' = [calls EXCEPT ![k] =
                       [pc |-> "closing", script_path |-> file,
                        own |-> IF r.hang THEN NoTree ELSE r.node,
                        result |-> NoTree]]
    /\ UNCHANGED <<manager_vars, root_node, outcome>>

\* line 66: resumed after the file is closed, the call returns
\* self._parse_labels(), which reads self.lines as it is now
ReturnTree(k) ==
    /\ ~ Stuck
    /\ calls[k].pc = "closing"
    /\ \E r \in {_parse_labels} :
          calls' = [calls EXCEPT
                       ![k].pc = IF r.hang THEN "hung" ELSE "done",
                       ![k].result = IF r.hang THEN NoTree ELSE r.node]
    /\ UNCHANGED <<manager_vars, lines, root_node, outcome>>

NextAsync ==
    \/ \E k \in CallIds, file \in Files : LoadLines(k, file)
    \/ \E k \in CallIds : ReturnTree(k)

SpecAsync == Init /\ [][NextAsync]_vars


----------------------------------------------------------------------------
\* Steps, as seen from outside

\* this step is the call of op on connection c (its code up to the first
\* suspension point, or to its return)
Called(c, op) == ops' = ops + 1 /\ last'.conn = c /\ last'.op = op

\* the number of occurrences of message m in the sequence q
Count(q, m) == Cardinality({i \in DOMAIN q : q[i] = m})

TypeOK ==
    /\ \A p \in Projects : project_connections[p] \subseteq Conns
    /\ \A s \in ScriptIds : script_connections[s] \subseteq Conns
    /\ DOMAIN user_sessions \subseteq Users \cup {None}
    /\ \A s \in ScriptIds : DOMAIN node_locks[s] \subseteq Nodes \cup {None}
    /\ clock \in 0..MaxClock
    /\ ops \in 0..MaxOps

----------------------------------------------------------------------------
\* C1: a lock request for a node that another user holds, the lock not being
\* expired (expires_at not earlier than now), returns false at once, leaves
\* the lock table unchanged and sends nothing to any connection.
C1_DeniedLockIsNoOp ==
    [][\A c \in Conns :
          (/\ Called(c, "lock_node")
           /\ last'.node \in DOMAIN node_locks[last'.id]
           /\ node_locks[last'.id][last'.node].user_id # last'.user
           /\ node_locks[last'.id][last'.node].expires_at >= clock)
          => (/\ task'[c].st = "idle"
              /\ task'[c].ret = "false"
              /\ node_locks' = node_locks
              /\ sent' = sent)]_vars

\* a lock request was denied: the node is held by another user and the lock
\* has not expired
C1_Witness ==
    /\ last.op = "lock_node"
    /\ task[last.conn].ret = "false"
    /\ last.node \in DOMAIN node_locks[last.id]
    /\ node_locks[last.id][last.node].user_id # last.user
    /\ node_locks[last.id][last.node].expires_at >= clock

----------------------------------------------------------------------------
\* the entry of (s, n) has not expired at time t
Unexpired(s, n, t) == node_locks[s][n].expires_at >= t

\* exactly one connection of the set S was sent one more message in this
\* step, a message of the given type about node n and user u
OneSend(S, type, n, u) ==
    \E r \in S :
        /\ Len(sent'[r]) = Len(sent[r]) + 1
        /\ SubSeq(sent'[r], 1, Len(sent[r])) = sent[r]
        /\ sent'[r][Len(sent'[r])].type = type
        /\ sent'[r][Len(sent'[r])].node_id = n
        /\ sent'[r][Len(sent'[r])].user_id = u
        /\ \A q \in Conns \ {r} : sent'[q] = sent[q]

\* C2: lock requests of two users for the same node, the second evaluated
\* while the first is suspended in its broadcast.  The request evaluated on a
\* free or expired node is granted and the table names its user at once,
\* before the coroutine suspends; the other request then finds that entry
\* and, as long as it stands unexpired, returns false: never both true.
\* The granted request returns true when its broadcast ends, unless the
\* script's connection set changed size under the loop (the call raises).
C2_ExclusiveGrant ==
    [][/\ \A c \in Conns :
            (/\ Called(c, "lock_node")
             /\ \/ last'.node \notin DOMAIN node_locks[last'.id]
                \/ ~ Unexpired(last'.id, last'.node, clock))
            => (/\ task'[c].ret # "false"
                /\ last'.node \in DOMAIN node_locks'[last'.id]
                /\ node_locks'[last'.id][last'.node].user_id = last'.user)
       /\ \A c, d \in Conns :
            (/\ c # d
             /\ task[c].st = "suspended" /\ task[c].op = "lock_node"
             /\ Called(d, "lock_node")
             /\ last'.id = task[c].script /\ last'.node = task[c].node
             /\ last'.user # task[c].user
             /\ task[c].node \in DOMAIN node_locks[task[c].script]
             /\ node_locks[task[c].script][task[c].node].user_id
                    = task[c].user
             /\ Unexpired(task[c].script, task[c].node, clock))
            => (/\ task'[d].st = "idle" /\ task'[d].ret = "false"
                /\ node_locks' = node_locks)
       /\ \A c \in Conns :
            (/\ task[c].st = "suspended" /\ task[c].op = "lock_node"
             /\ task'[c].st = "idle")
            => \/ task'[c].ret = "true"
               \/ /\ task'[c].ret = "raised"
                  /\ Cardinality(script_connections[task[c].script])
                        # task[c].size]_vars

\* the second request was denied while the first one is still broadcasting
C2_Witness ==
    \E c \in Conns :
        /\ task[c].st = "suspended" /\ task[c].op = "lock_node"
        /\ last.op = "lock_node" /\ last.conn # c
        /\ last.id = task[c].script /\ last.node = task[c].node
        /\ last.user # task[c].user
        /\ task[last.conn].ret = "false"
        /\ node_locks[last.id][last.node].user_id = task[c].user

\* C3: release returns true exactly when an entry exists and the caller holds
\* it.  Then the entry is deleted and node_unlocked goes to the script's
\* connections (every connection that stayed registered has it once when
\* the call returns true); otherwise the table is unchanged and nothing is
\* sent.  A lock request by anybody for a node without entry is granted.
C3_Release ==
    [][/\ \A c \in Conns :
            Called(c, "release_node_lock") =>
              LET s == last'.id
                  n == last'.node
                  u == last'.user
              IN  IF n \in DOMAIN node_locks[s]
                     /\ node_locks[s][n].user_id = u
                  THEN /\ task'[c].ret # "false"
                       /\ DOMAIN node_locks'[s] = DOMAIN node_locks[s] \ {n}
                       /\ \A m \in DOMAIN node_locks'[s] :
                             node_locks'[s][m] = node_locks[s][m]
                       /\ \A x \in Scripts \ {s} :
                             node_locks'[x] = node_locks[x]
                       /\ IF script_connections[s] = {}
                          THEN sent' = sent /\ task'[c].ret = "true"
                          ELSE /\ OneSend(script_connections[s],
                                          "node_unlocked", n, u)
                               /\ task'[c].st = "suspended"
                  ELSE /\ task'[c].st = "idle" /\ task'[c].ret = "false"
                       /\ node_locks' = node_locks
                       /\ sent' = sent
       /\ \A c \in Conns :
            (/\ task[c].st = "suspended"
             /\ task[c].op = "release_node_lock"
             /\ task'[c].st = "idle")
            => (/\ task'[c].ret \in {"true", "raised"}
                /\ task'[c].ret = "true" =>
                     \A r \in task[c].snap \cap
                                script_connections[task[c].script] :
                         Count(sent'[r], task[c].msg) = 1)
       /\ \A c \in Conns :
            (/\ Called(c, "lock_node")
             /\ last'.node \notin DOMAIN node_locks[last'.id])
            => (/\ task'[c].ret # "false"
                /\ node_locks'[last'.id][last'.node].user_id
                      = last'.user)]_vars

\* a release by the holder has returned true after its broadcast
C3_Witness ==
    /\ last.op = "release_node_lock"
    /\ task[last.conn].ret = "true"
    /\ last.node \notin DOMAIN node_locks[last.id]
    /\ \E r \in Conns : \E i \in DOMAIN sent[r] :
          /\ sent[r][i].type = "node_unlocked"
          /\ sent[r][i].node_id = last.node
          /\ sent[r][i].user_id = last.user

\* C4: a lock blocks other users while now <= expires_at, and expires_at is
\* locked_at + timeout; once now is later, the request of another user is
\* granted: the entry names the new holder with locked_at = now and
\* expires_at = now + timeout, and node_locked is sent.
C4_ExpiredLockTakenOver ==
    [][\A c \in Conns :
          (/\ Called(c, "lock_node")
           /\ last'.node \in DOMAIN node_locks[last'.id]
           /\ node_locks[last'.id][last'.node].user_id # last'.user)
          => LET s == last'.id
                 n == last'.node
                 u == last'.user
                 old == node_locks[s][n]
             IN  /\ old.expires_at = old.locked_at + lock_timeout
                 /\ IF old.expires_at < clock
                    THEN /\ task'[c].ret # "false"
                         /\ node_locks'[s][n] =
                               [user_id |-> u, username |-> Username(u),
                                locked_at |-> clock,
                                expires_at |-> clock + lock_timeout]
                         /\ OneSend(script_connections[s],
                                    "node_locked", n, u)
                    ELSE /\ task'[c].ret = "false"
                         /\ node_locks' = node_locks]_vars

\* a user took over a node whose entry, written by another user with the
\* preceding change of the table, had expired
C4_Witness ==
    \E r, q \in Conns : \E i \in DOMAIN sent[r] : \E j \in DOMAIN sent[q] :
        /\ sent[r][i].type = "node_locked" /\ sent[q][j].type = "node_locked"
        /\ sent[r][i].node_id = sent[q][j].node_id
        /\ route[sent[r][i].by].id = route[sent[q][j].by].id
        /\ sent[r][i].user_id # sent[q][j].user_id
        /\ sent[q][j].seq = sent[r][i].seq + 1
        /\ sent[q][j].timestamp > sent[r][i].timestamp + lock_timeout

----------------------------------------------------------------------------
\* this step of a disconnect call on c runs the release of the user's locks
\* (lines 494-512): it starts at the call, or resumes after the loop of
\* user_left_project or user_left_script, and gets past line 512
ReleasesLocks(c) ==
    /\ \/ Called(c, "disconnect") /\ last'.user \in DOMAIN user_sessions
       \/ /\ task[c].st = "suspended" /\ task[c].op = "disconnect"
          /\ task[c].cont \in {"dc_script", "dc_locks"}
          /\ ~ SetChanged(c)
    /\ \/ task'[c].st = "idle"
       \/ task'[c].op = "disconnect" /\ task'[c].cont = "dc_del"

\* the user and the session script of the disconnect call stepping on c
LeavingUser(c) == IF task[c].st = "suspended" THEN task[c].user ELSE last'.user
LeavingScript(c) ==
    IF task[c].st = "suspended" THEN task[c].script ELSE last'.id

----------------------------------------------------------------------------
\* the disconnect call on c returns normally in this step
DisconnectReturns(c) ==
    /\ \/ Called(c, "disconnect")
       \/ task[c].st = "suspended" /\ task[c].op = "disconnect"
    /\ task'[c].st = "idle" /\ task'[c].ret = "done"

\* C6: once the disconnect of a user with a session has returned, no entry
\* of the lock table of any script names that user as holder.
C6_NoLockSurvivesDisconnect ==
    [][\A c \in Conns :
          (/\ DisconnectReturns(c)
           /\ LeavingUser(c) # None
           /\ LeavingUser(c) \in DOMAIN user_sessions)
          => \A s \in Scripts : \A n \in DOMAIN node_locks'[s] :
                node_locks'[s][n].user_id # LeavingUser(c)]_vars

\* C7: once disconnect(conn, userId?) has returned, conn is in no project
\* connection set and in no script connection set, and the user who
\* registered conn has no session entry.
C7_DisconnectRemovesConnection ==
    [][\A c \in Conns :
          DisconnectReturns(c) =>
            /\ \A p \in Projects : c \notin project_connections'[p]
            /\ \A s \in Scripts : c \notin script_connections'[s]
            /\ route[c].user \notin DOMAIN user_sessions']_vars

\* C8: a disconnect call for a connection for which disconnect was already
\* called and which no session holds any more changes no session, no
\* connection set and no lock entry, and sends no message.
C8_DisconnectIdempotent ==
    [][\A c \in Conns :
          (/\ Called(c, "disconnect")
           /\ route[c].life = "closed"
           /\ \A u \in DOMAIN user_sessions : user_sessions[u].ws # c)
          => UNCHANGED <<user_sessions, project_connections,
                         script_connections, node_locks, sent>>]_vars

\* the nodes a lock event is about
EventNodes(m) == IF m.type = "locks_released" THEN m.nodes ELSE {m.node_id}

\* C9: every connection receives the node_locked, node_unlocked and
\* locks_released events of a node in the order in which the lock table
\* changed (seq numbers the changes of the table).
C9_EventsInTableOrder ==
    \A r \in Conns : \A i, j \in DOMAIN sent[r] :
        (/\ i < j
         /\ sent[r][i].seq > 0 /\ sent[r][j].seq > 0
         /\ EventNodes(sent[r][i]) \cap EventNodes(sent[r][j]) # {})
        => sent[r][i].seq < sent[r][j].seq

\* the active_users message connect_project has just sent to c
JoinMessage(c) == sent'[c][Len(sent'[c])]

\* C10 as claimed: the user list of the active_users message of a join holds
\* exactly the users who have a connection registered for the project.
C10_RosterOfRegisteredUsers ==
    [][\A c \in Conns :
          Called(c, "connect_project") =>
            /\ JoinMessage(c).type = "active_users"
            /\ {e.id : e \in JoinMessage(c).body} =
                 {route'[d].user : d \in project_connections'[last'.id]}
      ]_vars

\* C10, amended: the user list of the active_users message of a join holds
\* exactly the users whose session names the project when conn is
\* registered (the joining user among them), each with the username,
\* connected_at and script of that session; when connect_project returns,
\* conn and every connection registered for the project before the loop
\* and still registered have that message exactly once, nobody has it twice.
C10_RosterOfSessions ==
    [][/\ \A c \in Conns :
            Called(c, "connect_project") =>
              LET p == last'.id
                  named == {u \in DOMAIN user_sessions' :
                               user_sessions'[u].project_id = p}
              IN  /\ JoinMessage(c).type = "active_users"
                  /\ JoinMessage(c).by = c
                  /\ last'.user \in named
                  /\ JoinMessage(c).body =
                       {[id |-> u,
                         username |-> user_sessions'[u].username,
                         connected_at |-> user_sessions'[u].connected_at,
                         editing_script |-> user_sessions'[u].script_id] :
                           u \in named}
                  /\ task'[c].msg = JoinMessage(c)
       /\ \A c \in Conns :
            (/\ task[c].st = "suspended" /\ task[c].op = "connect_project"
             /\ task'[c].st = "idle" /\ task'[c].ret = "done")
            => (/\ \A r \in (task[c].snap \cup {c}) \cap
                             project_connections[task[c].project] :
                      Count(sent'[r], task[c].msg) = 1
                /\ \A r \in Conns : Count(sent'[r], task[c].msg) <= 1)
      ]_vars

\* a join has returned after sending its list to an earlier connection of
\* the project, while a user with a connection registered for the project
\* is not in the list
C10_Witness ==
    /\ last.op = "connect_project"
    /\ task[last.conn].st = "idle" /\ task[last.conn].ret = "done"
    /\ \E r \in project_connections[last.id] \ {last.conn} :
          \E i \in DOMAIN sent[r] :
            /\ sent[r][i].type = "active_users"
            /\ sent[r][i].by = last.conn
            /\ \E d \in project_connections[last.id] :
                  route[d].user \notin {e.id : e \in sent[r][i].body}

----------------------------------------------------------------------------
\* the positions of the messages of type ty that the call of c put in q
From(q, c, ty) == {i \in DOMAIN q : q[i].by = c /\ q[i].type = ty}

\* the connect_script call of c returns normally in this step
ConnectScriptReturns(c) ==
    /\ task[c].st = "suspended" /\ task[c].op = "connect_script"
    /\ task'[c].st = "idle" /\ task'[c].ret = "done"

\* the connect_script call of c builds its node_locks message and sends it
NodeLocksSent(c) ==
    /\ task[c].cont # "cs_done"
    /\ task'[c].st = "suspended" /\ task'[c].op = "connect_script"
    /\ task'[c].cont = "cs_done"

\* C11: when connect_script(conn, s, u) returns, every other connection
\* that was registered for s when conn joined and still is has exactly one
\* user_joined_script for u from this join; conn has exactly one message
\* from it, a node_locks message, and no user_joined_script; and that
\* node_locks message lists every entry of the lock table of s as it is
\* when the message is sent.
C11_ScriptJoinAnnounced ==
    [][\A c \in Conns :
          /\ ConnectScriptReturns(c) =>
                LET s == route'[c].id
                    u == route'[c].user
                    before == task[c].snap
                    mine == {i \in DOMAIN sent'[c] : sent'[c][i].by = c}
                IN  /\ \A r \in (before \cap script_connections'[s]) \ {c} :
                          /\ Cardinality(From(sent'[r], c,
                                              "user_joined_script")) = 1
                          /\ \A i \in From(sent'[r], c,
                                            "user_joined_script") :
                                sent'[r][i].user_id = u
                    /\ \A r \in Conns :
                          Cardinality(From(sent'[r], c,
                                           "user_joined_script")) <= 1
                    /\ From(sent'[c], c, "user_joined_script") = {}
                    /\ Cardinality(mine) = 1
                    /\ mine = From(sent'[c], c, "node_locks")
          /\ NodeLocksSent(c) =>
                LET s == route'[c].id
                    m == sent'[c][Len(sent'[c])]
                IN  /\ m.type = "node_locks" /\ m.by = c
                    /\ {e.node_id : e \in m.body} = DOMAIN node_locks'[s]
                    /\ \A e \in m.body :
                          /\ e.user_id = node_locks'[s][e.node_id].user_id
                          /\ e.locked_at = node_locks'[s][e.node_id].locked_at
      ]_vars

\* a join has returned: a peer of another user has its user_joined_script
\* and the joiner has a node_locks message that lists a lock
C11_Witness ==
    /\ last.op = "connect_script"
    /\ task[last.conn].st = "idle" /\ task[last.conn].ret = "done"
    /\ \E r \in script_connections[last.id] \ {last.conn} :
          /\ route[r].user # last.user
          /\ From(sent[r], last.conn, "user_joined_script") # {}
    /\ \E i \in From(sent[last.conn], last.conn, "node_locks") :
          sent[last.conn][i].body # {}

----------------------------------------------------------------------------
----------------------------------------------------------------------------
\* C13: handle_client_message, given a text that is not JSON or an object
\* whose type is none of the recognized ones, returns normally, sends
\* nothing and leaves sessions, connection sets and lock table unchanged.
C13_BadPayloadIgnored ==
    [][\A c \in Conns :
          (Called(c, "notjson") \/ Called(c, "unknown"))
          => (/\ task'[c].st = "idle" /\ task'[c].ret = "done"
              /\ UNCHANGED <<user_sessions, project_connections,
                             script_connections, node_locks, sent>>)]_vars

\* such a payload was handled on a websocket that a session and a script
\* connection set hold
C13_Witness ==
    /\ last.op \in {"notjson", "unknown"}
    /\ task[last.conn].ret = "done"
    /\ \E u \in DOMAIN user_sessions : user_sessions[u].ws = last.conn
    /\ \E s \in ScriptIds : last.conn \in script_connections[s]

----------------------------------------------------------------------------
\* the call handled in this step is a join, startEditing or endEditing
\* message that lacks one of the fields its branch reads
LacksField(c) ==
    \/ /\ Called(c, "join")
       /\ None \in {last'.id, last'.user}
    \/ /\ Called(c, "startEditing") \/ Called(c, "endEditing")
       /\ None \in {last'.id, last'.user, last'.node}

\* C14: a message of a recognized type that lacks a required field is
\* dropped: no session, connection-set entry or lock is created or changed
\* and nothing is sent.
C14_MissingFieldDropped ==
    [][\A c \in Conns :
          LacksField(c) =>
            UNCHANGED <<user_sessions, project_connections,
                        script_connections, node_locks, sent>>]_vars

----------------------------------------------------------------------------
\* C15: the server closes a connection with the auth-failure code (4001)
\* only before it has registered it: no connection that was registered is
\* closed by the server, whatever it sends.
C15_ClosedOnlyAtConnect ==
    \A c \in Conns :
        route[c].life \in {"refused", "aborted"} => route[c].kind = None

----------------------------------------------------------------------------
\* Trees

Kids(node) ==
    {node.children[k] : k \in DOMAIN node.children} \cup
    {node.false_branch[k] : k \in DOMAIN node.false_branch}

\* the nodes of the tree under node, node included
RECURSIVE TreeNodes(_)
TreeNodes(node) == {node} \cup UNION {TreeNodes(c) : c \in Kids(node)}

\* the label statements of the script: label NAME: at indentation 0
IsLabelStatement(line) ==
    line.word = "label" /\ line.arg # "" /\ line.colon /\
    _get_indent_level(line) = 0

LabelStatements(ls) == SelectSeq(ls, IsLabelStatement)

\* the first line after line k of ls that is not blank, 0 if there is none
NextNonBlank(ls, k) ==
    LET later == {j \in DOMAIN ls : j > k /\ ~ Blank(ls[j])}
    IN IF later = {} THEN 0
       ELSE CHOOSE j \in later : \A i \in later : j <= i

\* A well-formed script: it starts at indentation 0, a line that ends with
\* a colon is followed by a block one level deeper, no other line is
\* followed by a deeper one, and labels are at indentation 0.
WellFormed(ls) ==
    /\ NextNonBlank(ls, 0) # 0 =>
           _get_indent_level(ls[NextNonBlank(ls, 0)]) = 0
    /\ \A k \in DOMAIN ls :
          ~ Blank(ls[k]) =>
             LET j == NextNonBlank(ls, k)
                 here == _get_indent_level(ls[k])
             IN /\ ls[k].word = "label" => here = 0
                /\ IF ls[k].colon
                   THEN j # 0 /\ _get_indent_level(ls[j]) = here + 1
                   ELSE j # 0 => _get_indent_level(ls[j]) <= here

\* C16: the parse of a well-formed script with N label statements returns
\* a root with exactly N children, all LabelBlock, the i-th one named by
\* the i-th label statement of the script.
C16_LabelsInSourceOrder ==
    outcome # "none" /\ WellFormed(lines) =>
        /\ outcome = "returned"
        /\ Len(root_node.children) = Len(LabelStatements(lines))
        /\ \A i \in DOMAIN root_node.children :
              /\ root_node.children[i].node_type = "LabelBlock"
              /\ root_node.children[i].label_name =
                     LabelStatements(lines)[i].arg

\* a well-formed script with two labels of different names was parsed
C16_Witness ==
    /\ outcome = "returned"
    /\ WellFormed(lines)
    /\ Len(LabelStatements(lines)) = 2
    /\ LabelStatements(lines)[1].arg # LabelStatements(lines)[2].arg

\* C17: parsing terminates and returns a tree for every sequence of lines:
\* no parse is left going round one of its loops for ever.
C17_ParsingReturns == outcome # "hung"

\* the place in ls of the first label statement after place k, or
\* Len(ls) + 1
NextLabelAfter(ls, k) ==
    LET later == {j \in DOMAIN ls : j > k /\ IsLabelStatement(ls[j])}
    IN IF later = {} THEN Len(ls) + 1
       ELSE CHOOSE j \in later : \A i \in later : j <= i

\* a dialogue or action line of a body: indented, no if, elif or menu,
\* no block of its own
ActionLine(line) ==
    /\ ~ Blank(line)
    /\ _get_indent_level(line) >= 1
    /\ ~ _is_a_statement(line)
    /\ ~ line.colon

\* place k of ls holds a label whose body, the lines up to the next label
\* or the end of the file, starts with an action line and holds only
\* action lines and blank lines
ActionsOnlyLabel(ls, k) ==
    /\ IsLabelStatement(ls[k])
    /\ k + 1 < NextLabelAfter(ls, k)
    /\ ActionLine(ls[k + 1])
    /\ \A j \in (k + 1)..(NextLabelAfter(ls, k) - 1) :
          Blank(ls[j]) \/ ActionLine(ls[j])

\* C18: in the tree returned, a label whose body holds only action lines
\* has exactly one child, an Action node that starts on the line after
\* the label line and ends on the last line before the next label or the
\* end of the file (line k of the script is place k + 1 of lines).
C18_SingleActionSpansBody ==
    outcome = "returned" =>
        \A k \in DOMAIN lines :
            ActionsOnlyLabel(lines, k) =>
                \E i \in DOMAIN root_node.children :
                    LET label_node == root_node.children[i]
                    IN /\ label_node.start_line = k - 1
                       /\ Len(label_node.children) = 1
                       /\ label_node.children[1].node_type = "Action"
                       /\ label_node.children[1].start_line = k
                       /\ label_node.children[1].end_line =
                              NextLabelAfter(lines, k) - 2

\* the line range of child lies within the line range of parent
Within(child, parent) ==
    /\ parent.start_line <= child.start_line
    /\ child.end_line <= parent.end_line

BlockTypes == {"LabelBlock", "IfBlock", "MenuBlock", "MenuOption"}

\* C19: in the tree returned, the line range of every entry of children
\* and of falseBranch lies within the line range of its parent, for
\* LabelBlock, IfBlock, MenuBlock and MenuOption parents.
C19_ChildrenWithinParent ==
    outcome = "returned" =>
        \A parent \in TreeNodes(root_node) :
            parent.node_type \in BlockTypes =>
                \A child \in Kids(parent) : Within(child, parent)

\* C20: every node of the tree returned has start_line <= end_line.
C20_StartBeforeEnd ==
    outcome = "returned" =>
        \A node \in TreeNodes(root_node) : node.start_line <= node.end_line

\* a tree was returned that has an if with a false branch, or a menu
\* option with a body, under a label
C20_Witness ==
    /\ outcome = "returned"
    /\ \E node \in TreeNodes(root_node) :
          \/ node.node_type = "IfBlock" /\ node.false_branch # <<>>
          \/ node.node_type = "MenuOption" /\ node.children # <<>>

\* the indentation of line k of the script
IndentOf(k) == _get_indent_level(Line(k))

\* the last line of the block under line h of the script: the lines after
\* h, up to the first one that is not blank and not deeper than h
BlockEnd(h) ==
    LET ends == {j \in h..(Len(lines) - 1) :
                    \A i \in (h + 1)..j :
                        Blank(Line(i)) \/ IndentOf(i) > IndentOf(h)}
    IN CHOOSE j \in ends : \A i \in ends : i <= j

\* line i of the script is within the line range of some node under node
Covers(node, i) ==
    \E m \in TreeNodes(node) : m.start_line <= i /\ i <= m.end_line

\* C21: in the tree returned, the falseBranch of an IfBlock (that of an if
\* or of an elif) is empty when neither elif nor else follows its block
\* (is the line f after it, at its indentation); when an elif follows, it is exactly one IfBlock, that
\* of the elif; when an else follows, its nodes are the nodes of the body
\* of the else: they start in that body, in order, and cover its action
\* lines, and there are none when the else has no body.
C21_FalseBranch ==
    outcome = "returned" =>
        \A n \in TreeNodes(root_node) :
            n.node_type = "IfBlock" =>
                LET h == n.start_line
                    f == BlockEnd(h) + 1
                    follows == f < Len(lines) /\ IndentOf(f) = IndentOf(h)
                    last_line == BlockEnd(f)
                    fb == n.false_branch
                IN
                IF follows /\ _is_elif_statement(Line(f))
                THEN /\ Len(fb) = 1
                     /\ fb[1].node_type = "IfBlock"
                     /\ fb[1].start_line = f
                ELSE IF follows /\ _is_else_statement(Line(f))
                THEN /\ \A k \in DOMAIN fb :
                            /\ f < fb[k].start_line
                            /\ fb[k].start_line <= last_line
                            /\ k > 1 =>
                                 fb[k - 1].start_line < fb[k].start_line
                     /\ \A i \in (f + 1)..last_line :
                            ActionLine(Line(i)) =>
                                \E k \in DOMAIN fb : Covers(fb[k], i)
                     /\ last_line = f => fb = <<>>
                ELSE fb = <<>>

\* a tree was returned for an if with two elifs and an else with a body:
\* the else body is in the falseBranch of the second elif
C21_Witness ==
    /\ outcome = "returned"
    /\ \E n \in TreeNodes(root_node) :
          /\ n.node_type = "IfBlock"
          /\ _is_if_statement(Line(n.start_line))
          /\ Len(n.false_branch) = 1
          /\ Len(n.false_branch[1].false_branch) = 1
          /\ LET second == n.false_branch[1].false_branch[1]
             IN /\ _is_elif_statement(Line(second.start_line))
                /\ second.false_branch # <<>>
                /\ second.false_branch[1].node_type = "Action"

\* the option lines of the menu at line m of the script, in order: the
\* quoted lines that end with a colon within the block of the menu
OptionLines(m) ==
    LET OptionAt(i) == IsMenuOption(Line(i))
        Upto(j) == {i \in (m + 1)..j : OptionAt(i)}
    IN [k \in 1..Cardinality(Upto(BlockEnd(m))) |->
           CHOOSE i \in Upto(BlockEnd(m)) : Cardinality(Upto(i)) = k]

\* C22: in the tree returned, a MenuBlock has one MenuOption child for
\* each option line of its menu, in the order of the lines and labeled
\* by the text of its line, and no node of the menu reaches a line at or
\* after the first line that is not deeper than the menu.
C22_MenuOptions ==
    outcome = "returned" =>
        \A n \in TreeNodes(root_node) :
            n.node_type = "MenuBlock" =>
                LET m == n.start_line
                    options == OptionLines(m)
                IN /\ Len(n.children) = Len(options)
                   /\ \A k \in DOMAIN options :
                         /\ n.children[k].node_type = "MenuOption"
                         /\ n.children[k].start_line = options[k]
                         /\ n.children[k].label_name = Line(options[k]).arg
                   /\ \A node \in TreeNodes(n) :
                         /\ m <= node.start_line
                         /\ node.end_line <= BlockEnd(m)

\* a tree was returned for a menu of two options of different texts that
\* is followed by a line at the indentation of the menu
C22_Witness ==
    /\ outcome = "returned"
    /\ \E n \in TreeNodes(root_node) :
          /\ n.node_type = "MenuBlock"
          /\ Len(n.children) = 2
          /\ n.children[1].label_name # n.children[2].label_name
          /\ BlockEnd(n.start_line) + 1 < Len(lines)
          /\ IndentOf(BlockEnd(n.start_line) + 1) = IndentOf(n.start_line)

\* C27: every Action node of the tree returned, under the root, covers at
\* least one line that is not blank: blank lines alone, such as a blank
\* line between the label line and an if, yield no Action node.
C27_ActionCoversText ==
    outcome = "returned" =>
        \A node \in TreeNodes(root_node) \ {root_node} :
            node.node_type = "Action" =>
                \E i \in node.start_line..node.end_line :
                    i < Len(lines) /\ ~ Blank(Line(i))

\* C29: a parse_async call that has returned has returned the tree of the
\* lines of its own file, also when another call on the same parser
\* loaded its lines in between.
C29_OwnTree ==
    \A k \in CallIds :
        calls[k].pc = "done" => calls[k].result = calls[k].own

----------------------------------------------------------------------------
\* C23: a lock request of the user who holds the entry of the node is
\* granted: the entry names the same user, with locked_at the time of the
\* request and expires_at lock_timeout later, and node_locked is sent to
\* the connections of the script again (to one of them in the step of the
\* request, the call being suspended in that send; to none if there is
\* none, and the call returns true).  The suspended call returns true
\* when its broadcast ends, having sent the event once to every connection
\* that stayed registered, unless the set changed size under the loop.
C23_HolderLocksAgain ==
    [][/\ \A c \in Conns :
            (/\ Called(c, "lock_node")
             /\ last'.node \in DOMAIN node_locks[last'.id]
             /\ node_locks[last'.id][last'.node].user_id = last'.user)
            => LET s == last'.id
                   n == last'.node
                   u == last'.user
               IN  /\ task'[c].ret # "false"
                   /\ n \in DOMAIN node_locks'[s]
                   /\ node_locks'[s][n].user_id = u
                   /\ node_locks'[s][n].locked_at = clock
                   /\ node_locks'[s][n].expires_at = clock + lock_timeout
                   /\ IF script_connections[s] = {}
                      THEN sent' = sent /\ task'[c].ret = "true"
                      ELSE /\ OneSend(script_connections[s],
                                      "node_locked", n, u)
                           /\ task'[c].st = "suspended"
       /\ \A c \in Conns :
            (/\ task[c].st = "suspended" /\ task[c].op = "lock_node"
             /\ task'[c].st = "idle")
            => (/\ task'[c].ret \in {"true", "raised"}
                /\ task'[c].ret = "true" =>
                     \A r \in task[c].snap \cap
                                script_connections[task[c].script] :
                         Count(sent'[r], task[c].msg) = 1)]_vars

\* the holder of an unexpired entry has locked the node again, later: a
\* connection has both node_locked events, for two table changes in a row
\* and lock_timeout apart, the entry has the time of the second, and the
\* request returned true
C23_Witness ==
    /\ last.op = "lock_node"
    /\ task[last.conn].st = "idle" /\ task[last.conn].ret = "true"
    /\ last.node \in DOMAIN node_locks[last.id]
    /\ node_locks[last.id][last.node].user_id = last.user
    /\ node_locks[last.id][last.node].locked_at = clock
    /\ \E r \in Conns : \E i, j \in DOMAIN sent[r] :
          /\ i < j
          /\ sent[r][i].type = "node_locked"
          /\ sent[r][j].type = "node_locked"
          /\ sent[r][i].node_id = last.node /\ sent[r][j].node_id = last.node
          /\ sent[r][i].user_id = last.user /\ sent[r][j].user_id = last.user
          /\ sent[r][j].seq = sent[r][i].seq + 1
          /\ sent[r][j].timestamp = sent[r][i].timestamp + lock_timeout
          /\ sent[r][j].timestamp = clock

----------------------------------------------------------------------------
----------------------------------------------------------------------------
\* the entry of (s, n) has expired and this step leaves it as it is
ExpiredStays(s, n) ==
    /\ n \in DOMAIN node_locks'[s]
    /\ node_locks'[s][n] = node_locks[s][n]

\* this step is a step of a disconnect call for user u
DisconnectStepOf(u) ==
    \E c \in Conns :
        \/ Called(c, "disconnect") /\ last'.user = u
        \/ /\ task[c].st = "suspended" /\ task[c].op = "disconnect"
           /\ task[c].user = u
           /\ task'[c] # task[c]

\* C25: an entry of the lock table that has expired is left as it is by
\* every step, the passage of time included, except a lock request for
\* its node, a release request of its holder for its node, and a
\* disconnect of its holder; and the node_locks message a joining
\* connection is sent lists every expired entry the script then has.
C25_ExpiredEntryStays ==
    [][/\ \A s \in Scripts : \A n \in DOMAIN node_locks[s] :
            node_locks[s][n].expires_at < clock =>
              \/ ExpiredStays(s, n)
              \/ \E c \in Conns :
                    /\ Called(c, "lock_node") \/ Called(c, "release_node_lock")
                    /\ last'.id = s /\ last'.node = n
                    /\ Called(c, "release_node_lock") =>
                          last'.user = node_locks[s][n].user_id
              \/ DisconnectStepOf(node_locks[s][n].user_id)
       /\ \A c \in Conns :
            NodeLocksSent(c) =>
              \A n \in DOMAIN node_locks'[route'[c].id] :
                 node_locks'[route'[c].id][n].expires_at < clock =>
                    \E e \in sent'[c][Len(sent'[c])].body :
                       /\ e.node_id = n
                       /\ e.user_id = node_locks'[route'[c].id][n].user_id
      ]_vars

\* a join has returned after the lock of a node expired: the entry is
\* still in the table and the node_locks message of the joiner lists it
C25_Witness ==
    /\ last.op = "connect_script"
    /\ task[last.conn].st = "idle" /\ task[last.conn].ret = "done"
    /\ \E n \in DOMAIN node_locks[last.id] :
          /\ node_locks[last.id][n].expires_at < clock
          /\ \E i \in From(sent[last.conn], last.conn, "node_locks") :
                \E e \in sent[last.conn][i].body : e.node_id = n

----------------------------------------------------------------------------
\* this step sends the message of the loop of c to one more connection
LoopGoesOn(c) == task'[c] = [task[c] EXCEPT !.visited = task'[c].visited]

\* the connections of the loop of c that were in the set when the loop
\* started, still are, and are not excluded
Stayers(c) == (task[c].snap \cap LiveSet(c)) \ task[c].excl

\* C26: when the loop of a broadcast to a script ends, the call has not
\* raised, whatever joined or left the script while it was suspended,
\* and every connection that stayed in the set and is not excluded has
\* been sent the message.
C26_BroadcastSurvivesChange ==
    [][\A c \in Conns :
          (/\ InLoop(c) /\ task[c].kind = "script"
           /\ task'[c] # task[c] /\ ~ LoopGoesOn(c))
            => /\ task'[c].ret # "raised"
               /\ Stayers(c) \subseteq task[c].visited
      ]_vars

----------------------------------------------------------------------------
\* the session of user u is bound to websocket c
BoundTo(c, u) == u \in DOMAIN user_sessions /\ user_sessions[u].ws = c

\* the nodes user u holds the lock of, script by script
LocksHeldBy(u) ==
    {<<s, n>> \in Scripts \X Nodes :
        n \in DOMAIN node_locks[s] /\ node_locks[s][n].user_id = u}

\* the same after the step
LocksHeldByNext(u) ==
    {<<s, n>> \in Scripts \X Nodes :
        n \in DOMAIN node_locks'[s] /\ node_locks'[s][n].user_id = u}

\* C28: a startEditing, endEditing or leave message that arrives on a
\* websocket some session is bound to, and whose userId names a user
\* whose session is not bound to that websocket, leaves the locks and
\* the session of the named user as they were.
C28_OnlyOwnUser ==
    [][\A c \in Conns :
          (/\ \/ Called(c, "startEditing") \/ Called(c, "endEditing")
              \/ Called(c, "leave")
           /\ last'.user \in Users
           /\ \E w \in Users : BoundTo(c, w)
           /\ ~ BoundTo(c, last'.user))
            => /\ LocksHeldByNext(last'.user) = LocksHeldBy(last'.user)
               /\ (last'.user \in DOMAIN user_sessions)
                     = (last'.user \in DOMAIN user_sessions')
      ]_vars

----------------------------------------------------------------------------
\* after this step websocket c has the lock e of node n: a node_locks
\* message of its own join lists it, or a node_locked event for it was
\* sent to c
ToldOfLock(c, n, e) ==
    \/ \E i \in From(sent'[c], c, "node_locks") :
          \E x \in sent'[c][i].body :
             x.node_id = n /\ x.user_id = e.user_id
    \/ \E i \in DOMAIN sent'[c] :
          /\ sent'[c][i].type = "node_locked"
          /\ sent'[c][i].node_id = n
          /\ sent'[c][i].user_id = e.user_id

\* after this step the broadcast of the lock of node n of script s has yet
\* to come to websocket c
LockEventUnderWay(c, s, n) ==
    \E d \in Conns :
        /\ task'[d].st = "suspended" /\ task'[d].op = "lock_node"
        /\ task'[d].script = s /\ task'[d].node = n
        /\ c \in script_connections'[s] \ task'[d].visited

\* C30: when the connect_script call of a websocket returns, every entry
\* the lock table of the script then has is listed in the node_locks
\* message the websocket was sent, or was announced to it by a
\* node_locked event, or its node_locked broadcast is still under way and
\* has yet to come to the websocket.
C30_JoinerKnowsLocks ==
    [][\A c \in Conns :
          ConnectScriptReturns(c) =>
            \A n \in DOMAIN node_locks'[route'[c].id] :
               \/ ToldOfLock(c, n, node_locks'[route'[c].id][n])
               \/ LockEventUnderWay(c, route'[c].id, n)
      ]_vars

====
